---- MODULE Spec2Model ----
(***************************************************************************)
(* Telemetry pipeline: TelemetryPublisher (multi-exporter observer), the   *)
(* exporter connectors (console / OTLP / Azure Monitor) and the top-level  *)
(* initialize_telemetry / cleanup_telemetry orchestration.                 *)
(*                                                                         *)
(* Objects are kept in growing sequences (the heap): exps, procs, provs    *)
(* and pubs; an object's identity is its index.  0 stands for None.        *)
(***************************************************************************)
EXTENDS Integers, Sequences, FiniteSets, TLC

\* ------------------------------------------------------------------ bounds
MaxExporters == 2      \* exporter objects ever constructed
MaxProcs == 2          \* BatchSpanProcessor objects ever constructed
MaxProvs == 2          \* TracerProvider objects ever constructed
MaxPubs == 2           \* TelemetryPublisher objects ever constructed
MaxSpans == 1          \* spans ever ended
MaxCfgLen == 2         \* exporter entries in the loaded configuration
TraceIdBits == 2       \* bits of the trace id the ratio sampler compares
RatioDen == 4          \* sampling ratios are the multiples of 1 / RatioDen
MaxNameLen == 2        \* characters of a span name given to a sampler
MaxPatterns == 2       \* entries of an exclusion list given to a sampler
MaxTasks == 3          \* coroutines ever scheduled on the event loop
MaxDecorated == 1      \* functions ever wrapped by instrument

\* ------------------------------------------------------- configuration
\* TELEMETRY_EXPORTERS registry: provider tag -> exporter class
TELEMETRY_EXPORTERS == {"azure_monitor", "otlp", "console"}

\* ExporterConfig values the loader can produce.  sub: the sub-configuration
\* section named like the provider is present; live: enable_live_metrics of
\* the Azure Monitor section; ratio in percent.
CfgConsole ==
    [provider |-> "console", enabled |-> TRUE, sub |-> TRUE,
     live |-> FALSE, ratio |-> 100, exclude |-> << <<"health">> >>]
CfgAzure ==
    [provider |-> "azure_monitor", enabled |-> TRUE, sub |-> TRUE,
     live |-> TRUE, ratio |-> 100, exclude |-> << <<"health">> >>]
CfgOtlpNoSub ==
    [provider |-> "otlp", enabled |-> TRUE, sub |-> FALSE,
     live |-> FALSE, ratio |-> 100, exclude |-> << <<"health">> >>]
CfgJaeger ==
    [provider |-> "jaeger", enabled |-> TRUE, sub |-> TRUE,
     live |-> FALSE, ratio |-> 100, exclude |-> << <<"health">> >>]
CfgOtlpDisabled ==
    [provider |-> "otlp", enabled |-> FALSE, sub |-> TRUE,
     live |-> FALSE, ratio |-> 100, exclude |-> << <<"health">> >>]

ExporterConfig == {CfgConsole, CfgAzure, CfgOtlpNoSub, CfgJaeger, CfgOtlpDisabled}

\* TelemetryConfig.exporters: validate_exporters rejects the empty list
TelemetryConfig ==
    UNION {[1..n -> ExporterConfig] : n \in 1..MaxCfgLen}

\* The provider tags ExporterConfig.provider admits
ProviderLiteral == {"azure_monitor", "otlp", "console", "jaeger"}

\* Entries of a configuration file that ExporterConfig rejects: a
\* sampling_ratio above 1.0, a provider tag outside the Literal
CfgBadRatio ==
    [provider |-> "console", enabled |-> TRUE, sub |-> TRUE,
     live |-> FALSE, ratio |-> 150, exclude |-> << <<"health">> >>]
CfgUnknownProvider ==
    [provider |-> "zipkin", enabled |-> TRUE, sub |-> TRUE,
     live |-> FALSE, ratio |-> 100, exclude |-> << <<"health">> >>]

RawExporterConfig == ExporterConfig \cup {CfgBadRatio, CfgUnknownProvider}

\* The telemetry section of the configuration file after the environment
\* overrides.  given: the section has an `exporters` key.
RawConfigs ==
    {[given |-> FALSE, exporters |-> <<>>]} \cup
    {[given |-> TRUE, exporters |-> x] :
        x \in UNION {[1..n -> RawExporterConfig] : n \in 0..MaxCfgLen}}

\* Validation of one ExporterConfig: the provider Literal and the bounds of
\* sampling_ratio; the provider's section is not looked at
validate_exporter(ec) ==
    /\ ec.provider \in ProviderLiteral
    /\ ec.ratio >= 0
    /\ ec.ratio <= 100

\* load_config: TelemetryConfig(**telemetry_config).  validate_exporters
\* runs on a given list only, not on the default of an absent key.
load_config(raw) ==
    IF \/ raw.given /\ raw.exporters = <<>>
       \/ \E i \in 1..Len(raw.exporters) : ~validate_exporter(raw.exporters[i])
    THEN [raised |-> TRUE, config |-> <<>>]
    ELSE [raised |-> FALSE, config |-> raw.exporters]

\* TelemetryConfig.get_enabled_exporters, as the indices of the entries kept
RECURSIVE EnabledFrom(_, _)
EnabledFrom(cfg, i) ==
    IF i > Len(cfg) THEN <<>>
    ELSE (IF cfg[i].enabled THEN <<i>> ELSE <<>>) \o EnabledFrom(cfg, i + 1)

get_enabled_exporters(cfg) == EnabledFrom(cfg, 1)

\* ------------------------------------------------------------- span names
\* A span name and a pattern are sequences of symbols: the words of a route
\* name, or single characters.
SpanNames == {<<"GET", "health">>, <<"GET", "demo", "simple">>}

\* `pattern in name` (substring test; the empty pattern is in every name)
Contains(name, pattern) ==
    \E i \in 0..(Len(name) - Len(pattern)) :
        SubSeq(name, i + 1, i + Len(pattern)) = pattern

\* --------------------------------------------------- sampling strategies
\* A sampling ratio is n / RatioDen; the arguments a caller can pass reach
\* below 0.0 and above 1.0
Ratios == (0 - 1)..(RatioDen + 1)

\* Span names and exclusion patterns given to a sampler, over a two-letter
\* alphabet with both cases of one letter
Chars == {"h", "H"}

SamplerNames == UNION {[1..n -> Chars] : n \in 1..MaxNameLen}

Patterns == {<<>>, <<"h">>, <<"h", "H">>}

ExclusionLists == UNION {[1..n -> Patterns] : n \in 0..MaxPatterns}

\* Trace ids are wider than the part the ratio sampler compares
TRACE_ID_LIMIT == 2 ^ TraceIdBits - 1

TraceIds == 0..(2 ^ (TraceIdBits + 1) - 1)

\* The parent span context of a sampling call: none (or not valid), or a
\* valid one with its sampled flag
Parents == {"none", "sampled", "unsampled"}

\* TraceIdRatioBased.get_bound_for_rate: round(rate * (TRACE_ID_LIMIT + 1)),
\* Python's round (half to even)
get_bound_for_rate(n) ==
    LET num == n * (TRACE_ID_LIMIT + 1)
        q == num \div RatioDen
        r == num % RatioDen
    IN  IF 2 * r < RatioDen THEN q
        ELSE IF 2 * r > RatioDen THEN q + 1
        ELSE IF q % 2 = 0 THEN q ELSE q + 1

\* No strategy constructed yet
NoSampler == [made |-> "none", obj |-> [kind |-> "none"], ratio |-> 0,
              exclude |-> <<>>]

AlwaysSampleStrategy == [kind |-> "always"]

\* RatioBasedSamplingStrategy.__init__: ValueError outside [0.0, 1.0]
RatioBasedSamplingStrategy(n) ==
    IF n < 0 \/ n > RatioDen THEN [raised |-> TRUE, obj |-> [kind |-> "none"]]
    ELSE [raised |-> FALSE,
          obj |-> [kind |-> "ratio", bound |-> get_bound_for_rate(n)]]

EndpointExclusionSamplingStrategy(base, patterns) ==
    [kind |-> "exclusion", base |-> base, patterns |-> patterns]

\* ParentBased(base_sampler): the SDK's defaults for the four parent cases
ParentBasedSamplingStrategy(base) == [kind |-> "parent", base |-> base]

\* Mutant of strategy_should_sample: the ratio layer keys its decision on
\* the span name instead of the trace id
RECURSIVE strategy_should_sample_by_name(_, _, _, _)
strategy_should_sample_by_name(s, parent, trace_id, name) ==
    CASE s.kind = "always" -> TRUE
      [] s.kind = "ratio" -> Len(name) % (TRACE_ID_LIMIT + 1) < s.bound
      [] s.kind = "exclusion" ->
            IF \E k \in 1..Len(s.patterns) : Contains(name, s.patterns[k])
            THEN FALSE
            ELSE strategy_should_sample_by_name(s.base, parent, trace_id, name)
      [] s.kind = "parent" ->
            IF parent # "none" THEN parent = "sampled"
            ELSE strategy_should_sample_by_name(s.base, parent, trace_id, name)

\* should_sample of the four strategies: TRUE for RECORD_AND_SAMPLE, FALSE
\* for DROP.  The ratio layer is TraceIdRatioBased, the parent layer is
\* ParentBased: a valid parent decides by its sampled flag.
RECURSIVE strategy_should_sample(_, _, _, _)
strategy_should_sample(s, parent, trace_id, name) ==
    CASE s.kind = "always" -> TRUE
      [] s.kind = "ratio" ->
            trace_id % (TRACE_ID_LIMIT + 1) < s.bound
      [] s.kind = "exclusion" ->
            IF \E k \in 1..Len(s.patterns) : Contains(name, s.patterns[k])
            THEN FALSE
            ELSE strategy_should_sample(s.base, parent, trace_id, name)
      [] s.kind = "parent" ->
            IF parent # "none" THEN parent = "sampled"
            ELSE strategy_should_sample(s.base, parent, trace_id, name)

\* The parent_context argument of should_sample.  present: it is a Context
\* that is not empty; span: it holds a span with a valid span context;
\* trace_state: the trace state of that span context (empty without a span)
ParentContexts ==
    {[present |-> FALSE, span |-> FALSE, trace_state |-> "empty"],
     [present |-> TRUE, span |-> FALSE, trace_state |-> "empty"],
     [present |-> TRUE, span |-> TRUE, trace_state |-> "empty"],
     [present |-> TRUE, span |-> TRUE, trace_state |-> "vendor=1"]}

\* The trace_state argument of should_sample
CallerTraceStates == {"None", "empty", "caller=1"}

\* The attributes argument of should_sample, as the keys given; None and
\* the empty mapping are one value (SamplingResult stores both as empty)
SpanAttributes == {<<>>, <<"http.method">>}

\* bool(trace_state) of Python
Truthy(trace_state) == trace_state \notin {"None", "empty"}

\* The SDK's _get_parent_trace_state
get_parent_trace_state(ctx) == IF ctx.span THEN ctx.trace_state ELSE "None"

\* Mutant of sampling_result: the exclusion layer returns the caller's trace
\* state whatever the parent
RECURSIVE sampling_result_caller_state(_, _, _, _, _, _)
sampling_result_caller_state(s, ctx, trace_id, name, attributes, trace_state) ==
    CASE s.kind = "always" ->
            [decision |-> "RECORD_AND_SAMPLE", attributes |-> attributes,
             trace_state |-> trace_state]
      [] s.kind = "ratio" ->
            LET recorded == strategy_should_sample(s, "none", trace_id, name)
            IN  [decision |-> IF recorded THEN "RECORD_AND_SAMPLE" ELSE "DROP",
                 attributes |-> IF recorded THEN attributes ELSE <<>>,
                 trace_state |-> get_parent_trace_state(ctx)]
      [] s.kind = "exclusion" ->
            IF \E k \in 1..Len(s.patterns) : Contains(name, s.patterns[k])
            THEN [decision |-> "DROP", attributes |-> attributes,
                  trace_state |-> trace_state]
            ELSE sampling_result_caller_state(s.base, ctx, trace_id, name,
                                              attributes, trace_state)

\* The SamplingResult of should_sample for the always, ratio and exclusion
\* strategies: decision, attributes, trace state.  TraceIdRatioBased drops
\* the attributes of a dropped span and returns the parent's trace state.
RECURSIVE sampling_result(_, _, _, _, _, _)
sampling_result(s, ctx, trace_id, name, attributes, trace_state) ==
    CASE s.kind = "always" ->
            [decision |-> "RECORD_AND_SAMPLE", attributes |-> attributes,
             trace_state |-> trace_state]
      [] s.kind = "ratio" ->
            LET recorded == strategy_should_sample(s, "none", trace_id, name)
            IN  [decision |-> IF recorded THEN "RECORD_AND_SAMPLE" ELSE "DROP",
                 attributes |-> IF recorded THEN attributes ELSE <<>>,
                 trace_state |-> get_parent_trace_state(ctx)]
      [] s.kind = "exclusion" ->
            IF \E k \in 1..Len(s.patterns) : Contains(name, s.patterns[k])
            THEN [decision |-> "DROP", attributes |-> attributes,
                  trace_state |->
                      IF ctx.present /\ Truthy(ctx.trace_state)
                      THEN ctx.trace_state ELSE trace_state]
            ELSE sampling_result(s.base, ctx, trace_id, name, attributes,
                                 trace_state)

\* Mutant of create_sampling_strategy: the parent-based wrapper is left out
create_sampling_strategy_unwrapped(n, exclude) ==
    LET based == IF n >= RatioDen
                 THEN [raised |-> FALSE, obj |-> AlwaysSampleStrategy]
                 ELSE RatioBasedSamplingStrategy(n)
    IN  IF based.raised THEN based
        ELSE [raised |-> FALSE,
              obj |-> IF exclude # <<>>
                      THEN EndpointExclusionSamplingStrategy(based.obj, exclude)
                      ELSE based.obj]

\* Mutant of create_sampling_strategy: the exclusion wrapper is applied in
\* the ratio branch only
create_sampling_strategy_ratio_branch(n, exclude) ==
    LET based == IF n >= RatioDen
                 THEN [raised |-> FALSE, obj |-> AlwaysSampleStrategy]
                 ELSE RatioBasedSamplingStrategy(n)
        excluding == IF exclude # <<>> /\ n < RatioDen
                     THEN EndpointExclusionSamplingStrategy(based.obj, exclude)
                     ELSE based.obj
    IN  IF based.raised THEN based
        ELSE [raised |-> FALSE, obj |-> ParentBasedSamplingStrategy(excluding)]

\* Mutant of create_sampling_strategy: a ratio of 0.0 is taken for "not
\* given" and replaced by the default 1.0
create_sampling_strategy_zero_default(n, exclude) ==
    LET m == IF n = 0 THEN RatioDen ELSE n
        based == IF m >= RatioDen
                 THEN [raised |-> FALSE, obj |-> AlwaysSampleStrategy]
                 ELSE RatioBasedSamplingStrategy(m)
        excluding == IF exclude # <<>>
                     THEN EndpointExclusionSamplingStrategy(based.obj, exclude)
                     ELSE based.obj
    IN  IF based.raised THEN based
        ELSE [raised |-> FALSE, obj |-> ParentBasedSamplingStrategy(excluding)]

\* create_sampling_strategy(ratio, exclude_endpoints)
create_sampling_strategy(n, exclude) ==
    LET based == IF n >= RatioDen
                 THEN [raised |-> FALSE, obj |-> AlwaysSampleStrategy]
                 ELSE RatioBasedSamplingStrategy(n)
        excluding == IF exclude # <<>>
                     THEN EndpointExclusionSamplingStrategy(based.obj, exclude)
                     ELSE based.obj
    IN  IF based.raised THEN based
        ELSE [raised |-> FALSE, obj |-> ParentBasedSamplingStrategy(excluding)]

VARIABLES
    config,             \* the loaded TelemetryConfig (exporters list)
    exps,               \* exporter objects
    procs,              \* BatchSpanProcessor objects
    provs,              \* TracerProvider objects
    pubs,               \* TelemetryPublisher objects
    globalProvider,     \* opentelemetry.trace global tracer provider
    globalTracer,       \* instrumentation._tracer (provider it is bound to)
    telemetryPublisher, \* dispatchers.telemetry._telemetry_publisher
    spanCount,          \* spans ended so far
    strategy,           \* the sampling strategy object constructed last
    app,                \* the application's lifespan: where it stands
    tasks,              \* coroutines scheduled on the event loop
    decorated,          \* wrappers made by instrument: the tracer each closed over
    lastOp              \* the call made last and its outcome

vars == <<config, exps, procs, provs, pubs, globalProvider, globalTracer,
          telemetryPublisher, spanCount, strategy, app, tasks, decorated,
          lastOp>>

ExpIds == 1..Len(exps)
ProcIds == 1..Len(procs)
ProvIds == 1..Len(provs)
PubIds == 1..Len(pubs)

Range(s) == {s[i] : i \in 1..Len(s)}

\* The heap and the module globals as one value, so that a call can be
\* composed of other calls.  raised / ret: outcome of the call made last.
State ==
    [exps |-> exps, procs |-> procs, provs |-> provs, pubs |-> pubs,
     globalProvider |-> globalProvider, globalTracer |-> globalTracer,
     telemetryPublisher |-> telemetryPublisher,
     raised |-> FALSE, ret |-> 0, noop |-> FALSE]

\* How a call ends: an exception, a value, or the early return of a call
\* that found nothing to do (these log and return None)
Raise(st) == [st EXCEPT !.raised = TRUE, !.ret = 0, !.noop = FALSE]
Return(st, v) == [st EXCEPT !.raised = FALSE, !.ret = v, !.noop = FALSE]
Skip(st) == [st EXCEPT !.raised = FALSE, !.ret = 0, !.noop = TRUE]

\* ------------------------------------------------- BatchSpanProcessor
NewProcessor ==
    [closed |-> FALSE, buffered |-> 0, exported |-> 0]

\* BatchSpanProcessor.force_flush: exports what is buffered; on a processor
\* that is shut down it only logs
force_flush(prs, pr) ==
    IF prs[pr].closed THEN prs
    ELSE [prs EXCEPT ![pr].exported = @ + prs[pr].buffered,
                     ![pr].buffered = 0]

\* BatchSpanProcessor.shutdown: drains the queue, closes; a second call is
\* ignored
processor_shutdown(prs, pr) ==
    IF prs[pr].closed THEN prs
    ELSE [prs EXCEPT ![pr].exported = @ + prs[pr].buffered,
                     ![pr].buffered = 0,
                     ![pr].closed = TRUE]

\* BatchSpanProcessor.on_end: queues the span, drops it once shut down
on_end(prs, pr) ==
    IF prs[pr].closed THEN prs
    ELSE [prs EXCEPT ![pr].buffered = @ + 1]

\* ------------------------------------------------------------ exporters
\* ConsoleExporter / OTLPExporter / AzureMonitorExporter __init__
NewExporter(ec) ==
    [provider |-> ec.provider, live |-> ec.live, connected |-> FALSE,
     proc |-> 0, handle |-> FALSE]

\* opentelemetry.trace.set_tracer_provider: only the first call takes effect
set_tracer_provider(current, pv) == IF current = 0 THEN pv ELSE current

\* Where connect() can raise: building the backend exporter, building the
\* BatchSpanProcessor, and (Azure Monitor) configure_azure_monitor
FailPoints(x) ==
    {"none", "exporter", "processor"}
        \cup (IF x.provider = "azure_monitor" /\ x.live THEN {"configure"} ELSE {})

\* Mutant of connect: the connected flag is set first
connect_flag_first(st, e, failAt) ==
    LET pr == Len(st.procs) + 1
        flagged == [st.exps EXCEPT ![e].connected = TRUE]
        withHandle == [flagged EXCEPT ![e].handle = TRUE]
        withProc == [withHandle EXCEPT ![e].proc = pr]
        newProcs == Append(st.procs, NewProcessor)
    IN  CASE failAt = "exporter" -> Raise([st EXCEPT !.exps = flagged])
          [] failAt = "processor" -> Raise([st EXCEPT !.exps = withHandle])
          [] failAt = "configure" ->
                Raise([st EXCEPT !.exps = withProc, !.procs = newProcs])
          [] OTHER ->
                Return([st EXCEPT !.exps = withProc, !.procs = newProcs], 0)

\* connect(): the three variants assign _exporter, then _span_processor,
\* then (Azure) configure live metrics, then _connected = True; any
\* exception is re-raised as ConnectionError with the assignments made so
\* far kept
connect(st, e, failAt) ==
    LET pr == Len(st.procs) + 1
        withHandle == [st.exps EXCEPT ![e].handle = TRUE]
        withProc == [withHandle EXCEPT ![e].proc = pr]
        newProcs == Append(st.procs, NewProcessor)
    IN  CASE failAt = "exporter" -> Raise(st)
          [] failAt = "processor" -> Raise([st EXCEPT !.exps = withHandle])
          [] failAt = "configure" ->
                Raise([st EXCEPT !.exps = withProc, !.procs = newProcs])
          [] OTHER ->
                Return([st EXCEPT
                    !.exps = [withProc EXCEPT ![e].connected = TRUE],
                    !.procs = newProcs], 0)

\* disconnect(): force_flush and shutdown of the processor held, then the
\* handles are dropped
disconnect(st, e) ==
    LET pr == st.exps[e].proc
        prs == IF pr # 0
               THEN processor_shutdown(force_flush(st.procs, pr), pr)
               ELSE st.procs
    IN  Return([st EXCEPT !.procs = prs,
                          !.exps = [st.exps EXCEPT ![e].proc = 0,
                                                   ![e].handle = FALSE,
                                                   ![e].connected = FALSE]], 0)

\* Mutant of exporter_health_check: only the processor handle is tested
exporter_health_check_handle_only(st, e) == st.exps[e].proc # 0

\* exporter.health_check()
exporter_health_check(st, e) == st.exps[e].connected /\ st.exps[e].proc # 0

\* exporter.get_exporter_info(): a dict built from the variant's tag, the
\* _connected flag and fields of the variant's configuration object, which
\* the constructor always stores
get_exporter_info(st, e) ==
    Return(st, [type |-> st.exps[e].provider,
                connected |-> st.exps[e].connected,
                enable_live_metrics |-> st.exps[e].live])

\* exporter.get_span_processor(): RuntimeError when no processor is held
get_span_processor(st, e) ==
    IF st.exps[e].proc = 0 THEN Raise(st)
    ELSE Return(st, st.exps[e].proc)

\* create_exporter(exporter_config): registry lookup, get_provider_config,
\* constructor
\* The two ValueErrors of create_exporter: provider not in the registry,
\* get_provider_config() finding no section for the provider
CreateFails(ec) == ec.provider \notin TELEMETRY_EXPORTERS \/ ~ec.sub

create_exporter(st, ec) ==
    IF CreateFails(ec) THEN Raise(st)
    ELSE Return([st EXCEPT !.exps = Append(st.exps, NewExporter(ec))],
                Len(st.exps) + 1)

\* ------------------------------------------------------------ publisher
\* TelemetryPublisher.__init__
NewPublisher == [exporters |-> <<>>, provider |-> 0, initialized |-> FALSE]

\* TracerProvider(resource=resource): no sampler is passed, so the SDK's
\* default sampler (parent-based, always on for root spans) is in effect
NewProvider ==
    [sampler |-> "parentbased_always_on", procs |-> <<>>, published |-> FALSE,
     shutdown |-> FALSE]

\* list.remove(exporter)
Remove(list, e) == SelectSeq(list, LAMBDA x : x # e)

\* Mutant of attach: the membership test is left out
attach_unchecked(st, p, e) ==
    Return([st EXCEPT !.pubs[p].exporters = Append(@, e)], 0)

\* Mutant of attach: attaching to a publisher that has a provider also adds
\* the exporter's processor to that provider
attach_registering(st, p, e) ==
    LET pv == st.pubs[p].provider
        pr == st.exps[e].proc
        listed == IF e \notin Range(st.pubs[p].exporters)
                  THEN [st EXCEPT !.pubs[p].exporters = Append(@, e)]
                  ELSE st
    IN  IF e \in Range(st.pubs[p].exporters) THEN Skip(st)
        ELSE IF pv # 0 /\ pr # 0
        THEN Return([listed EXCEPT !.provs[pv].procs = Append(@, pr)], 0)
        ELSE Return(listed, 0)

\* TelemetryPublisher.attach
attach(st, p, e) ==
    IF e \notin Range(st.pubs[p].exporters)
    THEN Return([st EXCEPT !.pubs[p].exporters = Append(@, e)], 0)
    ELSE Skip(st)

\* TelemetryPublisher.detach
detach(st, p, e) ==
    IF e \in Range(st.pubs[p].exporters)
    THEN Return([st EXCEPT !.pubs[p].exporters = Remove(@, e)], 0)
    ELSE Skip(st)

\* The loop of initialize(): get_span_processor() of each attached exporter
\* in turn, added to the provider; stops at the first exporter holding none
RECURSIVE add_span_processors(_, _, _, _)
add_span_processors(xs, list, i, acc) ==
    IF i > Len(list) THEN [procs |-> acc, raised |-> FALSE]
    ELSE IF xs[list[i]].proc = 0 THEN [procs |-> acc, raised |-> TRUE]
    ELSE add_span_processors(xs, list, i + 1, Append(acc, xs[list[i]].proc))

\* Mutant of initialize: the already-initialized test is left out
initialize_unguarded(st, p) ==
    LET pv == Len(st.provs) + 1
        added == add_span_processors(st.exps, st.pubs[p].exporters, 1, <<>>)
        created == [st EXCEPT
                      !.provs = Append(@, [NewProvider EXCEPT !.procs = added.procs]),
                      !.pubs[p].provider = pv]
    IN  IF added.raised THEN Raise(created)
        ELSE Return([created EXCEPT
                        !.globalProvider = set_tracer_provider(@, pv),
                        !.provs[pv].published = TRUE,
                        !.pubs[p].initialized = TRUE], 0)

\* TelemetryPublisher.initialize
initialize(st, p) ==
    IF st.pubs[p].initialized THEN Skip(st)
    ELSE
      LET pv == Len(st.provs) + 1
          added == add_span_processors(st.exps, st.pubs[p].exporters, 1, <<>>)
          created == [st EXCEPT
                        !.provs = Append(@, [NewProvider EXCEPT !.procs = added.procs]),
                        !.pubs[p].provider = pv]
      IN  IF added.raised THEN Raise(created)
          ELSE Return([created EXCEPT
                          !.globalProvider = set_tracer_provider(@, pv),
                          !.provs[pv].published = TRUE,
                          !.pubs[p].initialized = TRUE], 0)

\* TracerProvider.shutdown: shuts down every registered processor in turn
RECURSIVE provider_shutdown(_, _, _)
provider_shutdown(prs, list, i) ==
    IF i > Len(list) THEN prs
    ELSE provider_shutdown(processor_shutdown(prs, list[i]), list, i + 1)

\* Mutant of shutdown: a publisher that is not initialized is an error,
\* as it is for get_tracer
shutdown_raising(st, p) ==
    IF ~st.pubs[p].initialized THEN Raise(st)
    ELSE
      LET pv == st.pubs[p].provider
      IN  Return([st EXCEPT
                    !.procs = provider_shutdown(@, st.provs[pv].procs, 1),
                    !.provs[pv].shutdown = TRUE,
                    !.pubs[p].initialized = FALSE], 0)

\* Mutant of shutdown: a registered processor that is closed already makes
\* the provider's shutdown fail, and the publisher stays initialized
shutdown_strict(st, p) ==
    IF ~st.pubs[p].initialized THEN Skip(st)
    ELSE
      LET pv == st.pubs[p].provider
      IN  IF \E pr \in Range(st.provs[pv].procs) : st.procs[pr].closed
          THEN Raise(st)
          ELSE Return([st EXCEPT
                        !.procs = provider_shutdown(@, st.provs[pv].procs, 1),
                        !.provs[pv].shutdown = TRUE,
                        !.pubs[p].initialized = FALSE], 0)

\* TelemetryPublisher.shutdown
shutdown(st, p) ==
    IF ~st.pubs[p].initialized THEN Skip(st)
    ELSE
      LET pv == st.pubs[p].provider
          down == IF pv # 0
                  THEN [st EXCEPT
                          !.procs = provider_shutdown(@, st.provs[pv].procs, 1),
                          !.provs[pv].shutdown = TRUE]
                  ELSE st
      IN  Return([down EXCEPT !.pubs[p].initialized = FALSE], 0)

\* TelemetryPublisher.shutdown when the provider's shutdown() raises: the
\* exception is logged and re-raised with the initialized flag still set
shutdown_failing(st, p) ==
    IF ~st.pubs[p].initialized \/ st.pubs[p].provider = 0 THEN shutdown(st, p)
    ELSE Raise(st)

\* Mutant of get_tracer: only the provider is tested, not the flag
get_tracer_unflagged(st, p) ==
    IF st.pubs[p].provider = 0 THEN Raise(st)
    ELSE Return(st, st.pubs[p].provider)

\* TelemetryPublisher.get_tracer: the tracer is bound to _tracer_provider
get_tracer(st, p) ==
    IF ~st.pubs[p].initialized \/ st.pubs[p].provider = 0 THEN Raise(st)
    ELSE Return(st, st.pubs[p].provider)

\* TelemetryPublisher.get_exporter_count
get_exporter_count(st, p) == Len(st.pubs[p].exporters)

\* Mutant of health_check: "initialized" is read off the provider field
health_check_by_provider(st, p, failing) ==
    IF \E i \in 1..Len(st.pubs[p].exporters) : st.pubs[p].exporters[i] \in failing
    THEN Raise(st)
    ELSE Return(st,
        [initialized |-> st.pubs[p].provider # 0,
         exporters |-> [i \in 1..Len(st.pubs[p].exporters) |->
                          [exp |-> st.pubs[p].exporters[i],
                           healthy |-> exporter_health_check(st, st.pubs[p].exporters[i])]]])

\* TelemetryPublisher.health_check.  failing: the attached exporters whose
\* get_exporter_info() or health_check() raises (the three connectors' never
\* do; another implementation of the TelemetryExporter interface may).  The
\* loop has no try/except, so the first such exporter ends the call.
health_check(st, p, failing) ==
    IF \E i \in 1..Len(st.pubs[p].exporters) : st.pubs[p].exporters[i] \in failing
    THEN Raise(st)
    ELSE Return(st,
        [initialized |-> st.pubs[p].initialized,
         exporters |-> [i \in 1..Len(st.pubs[p].exporters) |->
                          [exp |-> st.pubs[p].exporters[i],
                           healthy |-> exporter_health_check(st, st.pubs[p].exporters[i])]]])

\* ------------------------------------------------- module-level functions
\* instrumentation.set_global_tracer
set_global_tracer(st, tracer) == [st EXCEPT !.globalTracer = tracer]

\* Mutant of create_and_connect: the first exception ends the loop
RECURSIVE create_and_connect_abort(_, _, _, _, _, _)
create_and_connect_abort(st, p, cfg, enabled, k, failAt) ==
    IF k > Len(enabled) THEN st
    ELSE
      LET i == enabled[k]
          made == create_exporter(st, cfg[i])
          conn == connect(made, made.ret, failAt[i])
      IN  IF made.raised THEN made
          ELSE IF conn.raised THEN conn
          ELSE create_and_connect_abort(attach(conn, p, made.ret), p, cfg,
                                        enabled, k + 1, failAt)

\* The loop of initialize_telemetry over the enabled entries: create,
\* connect, attach; any exception skips to the next entry
RECURSIVE create_and_connect(_, _, _, _, _, _)
create_and_connect(st, p, cfg, enabled, k, failAt) ==
    IF k > Len(enabled) THEN st
    ELSE
      LET i == enabled[k]
          made == create_exporter(st, cfg[i])
          conn == connect(made, made.ret, failAt[i])
      IN  IF made.raised
          THEN create_and_connect(made, p, cfg, enabled, k + 1, failAt)
          ELSE IF conn.raised
          THEN create_and_connect(conn, p, cfg, enabled, k + 1, failAt)
          ELSE create_and_connect(attach(conn, p, made.ret), p, cfg, enabled,
                                  k + 1, failAt)

\* Mutant of initialize_telemetry: the test for an enabled exporter is left
\* out
initialize_telemetry_unchecked(st, cfg, failAt) ==
    LET p == Len(st.pubs) + 1
        enabled == get_enabled_exporters(cfg)
        withPub == [st EXCEPT !.pubs = Append(@, NewPublisher)]
        attached == create_and_connect(withPub, p, cfg, enabled, 1, failAt)
        inited == initialize(attached, p)
        tracer == get_tracer(inited, p)
    IN  IF inited.raised THEN Raise(inited)
        ELSE IF tracer.raised THEN Raise(tracer)
        ELSE Return([set_global_tracer(tracer, tracer.ret)
                        EXCEPT !.telemetryPublisher = p], p)

\* initialize_telemetry(config, app).  The publisher constructed before the
\* "no enabled exporters" error is unreachable afterwards and is not kept.
initialize_telemetry(st, cfg, failAt) ==
    LET p == Len(st.pubs) + 1
        enabled == get_enabled_exporters(cfg)
        withPub == [st EXCEPT !.pubs = Append(@, NewPublisher)]
        attached == create_and_connect(withPub, p, cfg, enabled, 1, failAt)
        inited == initialize(attached, p)
        tracer == get_tracer(inited, p)
    IN  IF enabled = <<>> THEN Raise(st)
        ELSE IF inited.raised THEN Raise(inited)
        ELSE IF tracer.raised THEN Raise(tracer)
        ELSE Return([set_global_tracer(tracer, tracer.ret)
                        EXCEPT !.telemetryPublisher = p], p)

\* Mutant of cleanup_telemetry: the global reference is kept
cleanup_telemetry_keeping(st, fails) ==
    IF st.telemetryPublisher = 0 THEN Skip(st)
    ELSE
      LET p == st.telemetryPublisher
          down == IF fails THEN shutdown_failing(st, p) ELSE shutdown(st, p)
      IN  IF down.raised THEN Raise(down)
          ELSE Return(down, 0)

\* cleanup_telemetry().  fails: the provider's shutdown() raises.  The loop
\* over list_exporters() only logs each exporter.
cleanup_telemetry(st, fails) ==
    IF st.telemetryPublisher = 0 THEN Skip(st)
    ELSE
      LET p == st.telemetryPublisher
          down == IF fails THEN shutdown_failing(st, p) ELSE shutdown(st, p)
      IN  IF down.raised THEN Raise(down)
          ELSE Return([down EXCEPT !.telemetryPublisher = 0], 0)

\* lifespan up to its yield: load_config(), then initialize_telemetry; an
\* exception of either is logged and re-raised
lifespan_startup(st, raw, failAt) ==
    LET loaded == load_config(raw)
    IN  IF loaded.raised THEN Raise(st)
        ELSE initialize_telemetry(st, loaded.config, failAt)

\* Mutant of lifespan_shutdown: the exception of cleanup_telemetry is
\* re-raised, as the one of startup is
lifespan_shutdown_reraising(st, fails) == cleanup_telemetry(st, fails)

\* lifespan after its yield: cleanup_telemetry(), whose exception is logged
\* and not re-raised
lifespan_shutdown(st, fails) == Return(cleanup_telemetry(st, fails), 0)

\* telemetry_health_check()
telemetry_health_check(st, failing) ==
    IF st.telemetryPublisher = 0
    THEN Return(st, [initialized |-> FALSE, exporters |-> <<>>])
    ELSE health_check(st, st.telemetryPublisher, failing)

\* get_telemetry_publisher()
get_telemetry_publisher(st) ==
    IF st.telemetryPublisher = 0 THEN Raise(st)
    ELSE Return(st, st.telemetryPublisher)

\* ---------------------------------------------------------------- spans
\* The sampler the provider was built with, asked at span start.  parent:
\* "none" for a root span, else the parent's sampled flag.
should_sample(sampler, parent, name) ==
    CASE sampler = "parentbased_always_on" -> parent # "unsampled"
      [] OTHER -> FALSE

\* How often processor pr is registered with the provider
Registrations(list, pr) == Cardinality({i \in 1..Len(list) : list[i] = pr})

\* Span end: the provider calls on_end of every registered processor
RECURSIVE span_end(_, _, _)
span_end(prs, list, i) ==
    IF i > Len(list) THEN prs
    ELSE span_end(on_end(prs, list[i]), list, i + 1)

\* ---------------------------------------------------------- scoped spans
\* How the body of a scope ends: it returns a result, it raises an exception
\* derived from Exception, or it raises one derived from BaseException only
\* (asyncio.CancelledError, KeyboardInterrupt, SystemExit)
BodyOutcomes ==
    {[raises |-> FALSE, exc |-> "none", is_exception |-> FALSE,
      result |-> "result"],
     [raises |-> TRUE, exc |-> "ValueError", is_exception |-> TRUE,
      result |-> "none"],
     [raises |-> TRUE, exc |-> "KeyboardInterrupt", is_exception |-> FALSE,
      result |-> "none"]}

\* The decorated wrappers and the context manager
Wrappers == {"create_span", "sync_wrapper", "async_wrapper"}

\* str(exception)
Message(exc) == <<"str", exc>>

\* The span handle as the scope got it: what was set on it and how often
\* end() was called
NewSpan ==
    [ends |-> 0, success |-> "unset", error_type |-> "unset",
     error_message |-> <<>>, status |-> "UNSET", exceptions |-> 0]

\* _set_error_attributes (and the same three attributes in create_span)
set_error_attributes(span, exc) ==
    [span EXCEPT !.success = "false", !.error_type = exc,
                 !.error_message = Message(exc)]

\* Mutant of span_exit: the span is ended on a normal exit only
span_exit_leaking(span, outcome, record_exception) ==
    IF outcome.raises THEN span ELSE [span EXCEPT !.ends = @ + 1]

\* Leaving `with tracer.start_as_current_span(...)`: an Exception is
\* recorded (if asked) and sets the status; the span is ended in any case
span_exit(span, outcome, record_exception) ==
    LET seen == IF outcome.raises /\ outcome.is_exception
                THEN [span EXCEPT
                        !.exceptions = IF record_exception THEN @ + 1 ELSE @,
                        !.status = "ERROR"]
                ELSE span
    IN  [seen EXCEPT !.ends = @ + 1]

\* sync_wrapper / async_wrapper of instrument: `except Exception` sets the
\* error attributes and re-raises, `else` sets operation.success and
\* returns the result
instrument_scope(outcome, record_exception) ==
    LET body == IF ~outcome.raises THEN [NewSpan EXCEPT !.success = "true"]
                ELSE IF outcome.is_exception
                THEN set_error_attributes(NewSpan, outcome.exc)
                ELSE NewSpan
    IN  [span |-> span_exit(body, outcome, record_exception),
         raised |-> outcome.raises, exc |-> outcome.exc,
         ret |-> outcome.result]

\* create_span: the with-block of the caller is the body
create_span_scope(outcome) ==
    LET body == IF ~outcome.raises
                THEN [NewSpan EXCEPT !.status = "OK", !.success = "true"]
                ELSE IF outcome.is_exception
                THEN [set_error_attributes(NewSpan, outcome.exc) EXCEPT
                        !.exceptions = @ + 1, !.status = "ERROR"]
                ELSE NewSpan
    IN  [span |-> span_exit(body, outcome, TRUE),
         raised |-> outcome.raises, exc |-> outcome.exc, ret |-> "none"]

\* instrumentation.get_tracer: RuntimeError while no global tracer is set
instrumentation_get_tracer(st) ==
    IF st.globalTracer = 0 THEN Raise(st) ELSE Return(st, st.globalTracer)

\* instrument's decorator(func): `tracer = existing_tracer or get_tracer()`
\* runs when the decorator is applied; the value returned is the tracer the
\* wrapper closes over (existing_tracer = 0: the argument was not given)
instrument(st, existing_tracer) ==
    IF existing_tracer # 0 THEN Return(st, existing_tracer)
    ELSE instrumentation_get_tracer(st)

\* Mutant of wrapper_tracer: the wrapper asks for the global tracer when it
\* is called
wrapper_tracer_at_call(st, tracer) == st.globalTracer

\* The tracer a wrapper starts its span with: the closure variable `tracer`
\* bound by decorator(func), whatever the global tracer is by now
wrapper_tracer(st, tracer) == tracer

\* What is observed of a call: its name, the publisher it is made on, how
\* it ended, and (arg) its further arguments
Op(name, p, st, arg) ==
    [op |-> name, pub |-> p, raised |-> st.raised, ret |-> st.ret,
     noop |-> st.noop, arg |-> arg]

\* The interpreter after import: no object constructed, no global set
Init ==
    /\ config \in TelemetryConfig
    /\ exps = <<>>
    /\ procs = <<>>
    /\ provs = <<>>
    /\ pubs = <<>>
    /\ globalProvider = 0
    /\ globalTracer = 0
    /\ telemetryPublisher = 0
    /\ spanCount = 0
    /\ strategy = NoSampler
    /\ app = "created"
    /\ tasks = <<>>
    /\ decorated = <<>>
    /\ lastOp = Op("none", 0, Return(State, 0), <<>>)

\* One TelemetryPublisher(config) and one exporter per configuration entry,
\* each built by create_exporter; nothing connected or attached yet.  The
\* exporters are interchangeable objects, so one order of each choice of
\* distinct providers is enough.
ProviderOrder == <<"console", "azure_monitor", "otlp">>

Rank(provider) == CHOOSE k \in 1..Len(ProviderOrder) : ProviderOrder[k] = provider

InitPub ==
    /\ config \in {cfg \in TelemetryConfig :
                      /\ Len(cfg) = MaxCfgLen
                      /\ \A i \in 1..Len(cfg) : ~CreateFails(cfg[i])
                      /\ \A i, j \in 1..Len(cfg) :
                            i < j => Rank(cfg[i].provider) < Rank(cfg[j].provider)}
    /\ exps = [i \in 1..Len(config) |-> NewExporter(config[i])]
    /\ procs = <<>>
    /\ provs = <<>>
    /\ pubs = <<NewPublisher>>
    /\ globalProvider = 0
    /\ globalTracer = 0
    /\ telemetryPublisher = 0
    /\ spanCount = 0
    /\ strategy = NoSampler
    /\ app = "created"
    /\ tasks = <<>>
    /\ decorated = <<>>
    /\ lastOp = Op("none", 0, Return(State, 0), <<>>)

\* ------------------------------------------------------------- actions
WithinBounds(st) ==
    /\ Len(st.exps) <= MaxExporters
    /\ Len(st.procs) <= MaxProcs
    /\ Len(st.provs) <= MaxProvs
    /\ Len(st.pubs) <= MaxPubs

\* The call's effect on the heap and the globals
Becomes(st) ==
    /\ WithinBounds(st)
    /\ exps' = st.exps
    /\ procs' = st.procs
    /\ provs' = st.provs
    /\ pubs' = st.pubs
    /\ globalProvider' = st.globalProvider
    /\ globalTracer' = st.globalTracer
    /\ telemetryPublisher' = st.telemetryPublisher

Call(name, p, st, arg) ==
    /\ Becomes(st)
    /\ lastOp' = Op(name, p, st, arg)
    /\ UNCHANGED <<decorated, config, spanCount, strategy, app, tasks>>

CreateExporter ==
    \E i \in 1..Len(config) :
        Call("create_exporter", 0, create_exporter(State, config[i]), <<>>)

Connect ==
    \E e \in ExpIds : \E f \in FailPoints(exps[e]) :
        Call("connect", 0, connect(State, e, f), <<e>>)

Disconnect ==
    \E e \in ExpIds : Call("disconnect", 0, disconnect(State, e), <<e>>)

ExporterHealthCheck ==
    \E e \in ExpIds :
        Call("exporter_health_check", 0,
             Return(State, exporter_health_check(State, e)), <<e>>)

GetExporterInfo ==
    \E e \in ExpIds :
        Call("get_exporter_info", 0, get_exporter_info(State, e), <<e>>)

GetSpanProcessor ==
    \E e \in ExpIds :
        Call("get_span_processor", 0, get_span_processor(State, e), <<e>>)

Construct ==
    Call("construct", Len(pubs) + 1,
         Return([State EXCEPT !.pubs = Append(@, NewPublisher)], 0), <<>>)

Attach ==
    \E p \in PubIds : \E e \in ExpIds :
        Call("attach", p, attach(State, p, e), <<e>>)

Detach ==
    \E p \in PubIds : \E e \in ExpIds :
        Call("detach", p, detach(State, p, e), <<e>>)

Initialize ==
    \E p \in PubIds : Call("initialize", p, initialize(State, p), <<>>)

\* Processors registered with the publisher's provider that are closed
AlreadyClosed(p) ==
    IF pubs[p].provider = 0 THEN {}
    ELSE {pr \in Range(provs[pubs[p].provider].procs) : procs[pr].closed}

Shutdown ==
    \E p \in PubIds :
        Call("shutdown", p, shutdown(State, p),
             <<Cardinality(AlreadyClosed(p))>>)

GetTracer ==
    \E p \in PubIds : Call("get_tracer", p, get_tracer(State, p), <<>>)

\* fails[e]: the health_check() of exporter e raises in this call
HealthCheck ==
    \E p \in PubIds : \E fails \in [ExpIds -> BOOLEAN] :
        Call("health_check", p,
             health_check(State, p, {e \in ExpIds : fails[e]}), fails)

\* The connect outcome of entry i matters only if its exporter gets created
FailChoices(cfg) ==
    {f \in [1..Len(cfg) -> {"none", "exporter", "processor", "configure"}] :
        \A i \in 1..Len(cfg) :
            IF cfg[i].enabled /\ ~CreateFails(cfg[i])
            THEN f[i] \in FailPoints(cfg[i])
            ELSE f[i] = "none"}

InitializeTelemetry ==
    \E f \in FailChoices(config) :
        LET st == initialize_telemetry(State, config, f)
        IN  Call("initialize_telemetry", st.ret, st, f)

\* Whether the provider's shutdown() can raise in a cleanup made now: only
\* an initialized publisher calls it
ShutdownFails ==
    {FALSE} \cup
        (IF telemetryPublisher # 0
         THEN (IF pubs[telemetryPublisher].initialized
                     /\ pubs[telemetryPublisher].provider # 0
               THEN {TRUE} ELSE {})
         ELSE {})

CleanupTelemetry ==
    \E fails \in ShutdownFails :
        Call("cleanup_telemetry", telemetryPublisher,
             cleanup_telemetry(State, fails), <<fails>>)

GetTelemetryPublisher ==
    Call("get_telemetry_publisher", telemetryPublisher,
         get_telemetry_publisher(State), <<>>)

TelemetryHealthCheck ==
    \E fails \in [ExpIds -> BOOLEAN] :
        Call("telemetry_health_check", telemetryPublisher,
             telemetry_health_check(State, {e \in ExpIds : fails[e]}), fails)

\* The application starts: the part of lifespan before its yield
LifespanStartup ==
    \E raw \in RawConfigs : \E f \in FailChoices(raw.exporters) :
        LET st == lifespan_startup(State, raw, f)
        IN  /\ app = "created"
            /\ Becomes(st)
            /\ config' = load_config(raw).config
            /\ app' = IF st.raised THEN "failed" ELSE "serving"
            /\ lastOp' = Op("lifespan_startup", st.ret, st,
                            [raw |-> raw, failAt |-> f])
            /\ UNCHANGED <<decorated, spanCount, strategy, tasks>>

\* The application stops: the part of lifespan after its yield
LifespanShutdown ==
    \E fails \in ShutdownFails :
        LET st == lifespan_shutdown(State, fails)
        IN  /\ app = "serving"
            /\ Becomes(st)
            /\ app' = IF st.raised THEN "failed" ELSE "stopped"
            /\ lastOp' = Op("lifespan_shutdown", telemetryPublisher, st,
                            <<fails>>)
            /\ UNCHANGED <<decorated, config, spanCount, strategy, tasks>>

\* A span is started and ended through a tracer of a provider: a tracer can
\* be had of every provider a publisher was initialized with (get_tracer,
\* the instrumentation tracer, the global provider)
EmitSpan ==
    \E pv \in {x \in ProvIds : provs[x].published} :
    \E name \in SpanNames : \E parent \in {"none", "sampled", "unsampled"} :
        LET recorded == should_sample(provs[pv].sampler, parent, name)
        IN  /\ spanCount < MaxSpans
            /\ spanCount' = spanCount + 1
            /\ procs' = IF recorded THEN span_end(procs, provs[pv].procs, 1)
                        ELSE procs
            /\ lastOp' = Op("span", 0, Return(State, pv),
                            [name |-> name, parent |-> parent,
                             recorded |-> recorded])
            /\ UNCHANGED <<decorated, config, exps, provs, pubs, globalProvider,
                           globalTracer, telemetryPublisher, strategy, app,
                           tasks>>

\* The calls of the publisher that coroutines make: attach(exporter),
\* initialize(), shutdown()
TaskCalls ==
    {[op |-> "attach", exp |-> e] : e \in ExpIds}
        \cup {[op |-> "initialize", exp |-> 0], [op |-> "shutdown", exp |-> 0]}

\* A coroutine calling the publisher is scheduled on the event loop
Spawn ==
    \E call \in TaskCalls : \E p \in PubIds :
        /\ Len(tasks) < MaxTasks
        /\ tasks' = Append(tasks, [op |-> call.op, exp |-> call.exp, pub |-> p,
                                   done |-> FALSE, raised |-> FALSE])
        /\ lastOp' = Op("create_task", p, Return(State, Len(tasks) + 1), <<>>)
        /\ UNCHANGED <<decorated, config, exps, procs, provs, pubs, globalProvider,
                       globalTracer, telemetryPublisher, spanCount, strategy,
                       app>>

\* The event loop runs one of the scheduled coroutines.  attach, initialize
\* and shutdown hold no await, so the coroutine runs to its end before the
\* loop runs another.
RunTask ==
    \E i \in 1..Len(tasks) :
        LET t == tasks[i]
            st == CASE t.op = "attach" -> attach(State, t.pub, t.exp)
                    [] t.op = "initialize" -> initialize(State, t.pub)
                    [] t.op = "shutdown" -> shutdown(State, t.pub)
        IN  /\ ~t.done
            /\ Becomes(st)
            /\ tasks' = [tasks EXCEPT ![i].done = TRUE, ![i].raised = st.raised]
            /\ lastOp' = Op(t.op, t.pub, st, <<i>>)
            /\ UNCHANGED <<decorated, config, spanCount, strategy, app>>

\* instrument is applied to a function, sync or async, with or without
\* existing_tracer (a tracer of a provider that a publisher handed out)
Instrument ==
    \E existing_tracer \in {0} \cup {pv \in ProvIds : provs[pv].published} :
    \E wrapper \in Wrappers \ {"create_span"} :
        LET applied == instrument(State, existing_tracer)
        IN  /\ applied.raised \/ Len(decorated) < MaxDecorated
            /\ decorated' = IF applied.raised THEN decorated
                            ELSE Append(decorated, [tracer |-> applied.ret,
                                                    wrapper |-> wrapper])
            /\ lastOp' = Op("instrument", 0, applied,
                            [existing_tracer |-> existing_tracer,
                             wrapper |-> wrapper])
            /\ UNCHANGED <<config, exps, procs, provs, pubs, globalProvider,
                           globalTracer, telemetryPublisher, spanCount,
                           strategy, app, tasks>>

\* A scope is entered and left: create_span takes its tracer from the global
\* provider (a no-op tracer while there is none); a wrapper made by
\* instrument (func: which one) uses the tracer it closed over.  The span
\* ended reaches the processors if it was recorded.
ScopedSpan ==
    \E wrapper \in Wrappers : \E func \in 0..Len(decorated) :
    \E outcome \in BodyOutcomes : \E record_exception \in BOOLEAN :
    \E name \in SpanNames : \E parent \in {"none", "sampled", "unsampled"} :
        LET pv == IF func = 0 THEN globalProvider
                  ELSE wrapper_tracer(State, decorated[func].tracer)
            scope == IF wrapper = "create_span" THEN create_span_scope(outcome)
                     ELSE instrument_scope(outcome, record_exception)
            recorded == IF pv = 0 THEN FALSE
                        ELSE should_sample(provs[pv].sampler, parent, name)
        IN  /\ IF wrapper = "create_span" THEN func = 0
               ELSE func # 0 /\ decorated[func].wrapper = wrapper
            /\ wrapper = "create_span" => record_exception
            /\ spanCount < MaxSpans
            /\ spanCount' = spanCount + 1
            /\ procs' = IF recorded /\ scope.span.ends > 0
                        THEN span_end(procs, provs[pv].procs, 1)
                        ELSE procs
            /\ lastOp' = Op(wrapper, 0,
                            IF scope.raised THEN Raise(State)
                            ELSE Return(State, scope.ret),
                            [outcome |-> outcome, span |-> scope.span,
                             propagated |-> scope.exc, name |-> name,
                             parent |-> parent, recorded |-> recorded,
                             func |-> func, tracer |-> pv])
            /\ UNCHANGED <<decorated, config, exps, provs, pubs,
                           globalProvider, globalTracer, telemetryPublisher,
                           strategy, app, tasks>>

\* The processor's worker thread exports a batch
WorkerExport ==
    \E pr \in ProcIds :
        /\ ~procs[pr].closed
        /\ procs[pr].buffered > 0
        /\ procs' = force_flush(procs, pr)
        /\ lastOp' = Op("export", 0, Return(State, pr), <<>>)
        /\ UNCHANGED <<decorated, config, exps, provs, pubs, globalProvider, globalTracer,
                       telemetryPublisher, spanCount, strategy, app, tasks>>

\* strategy = create_sampling_strategy(ratio, exclude_endpoints)
CreateSamplingStrategy ==
    \E n \in Ratios : \E exclude \in ExclusionLists :
        LET made == create_sampling_strategy(n, exclude)
        IN  /\ strategy' = IF made.raised THEN strategy
                          ELSE [made |-> "create_sampling_strategy",
                                obj |-> made.obj, ratio |-> n,
                                exclude |-> exclude]
            /\ lastOp' = Op("create_sampling_strategy", 0,
                            IF made.raised THEN Raise(State)
                            ELSE Return(State, 0), <<n, exclude>>)
            /\ UNCHANGED <<decorated, config, exps, procs, provs, pubs, globalProvider,
                           globalTracer, telemetryPublisher, spanCount, app,
                           tasks>>

\* strategy = RatioBasedSamplingStrategy(ratio)
ConstructRatioSampler ==
    \E n \in Ratios :
        LET made == RatioBasedSamplingStrategy(n)
        IN  /\ strategy' = IF made.raised THEN strategy
                          ELSE [made |-> "RatioBasedSamplingStrategy",
                                obj |-> made.obj, ratio |-> n,
                                exclude |-> <<>>]
            /\ lastOp' = Op("RatioBasedSamplingStrategy", 0,
                            IF made.raised THEN Raise(State)
                            ELSE Return(State, 0), <<n>>)
            /\ UNCHANGED <<decorated, config, exps, procs, provs, pubs, globalProvider,
                           globalTracer, telemetryPublisher, spanCount, app,
                           tasks>>

\* The base samplers an exclusion strategy is built on here: the always
\* strategy and the ratio strategy of the middle ratio
ExclusionBases ==
    {[ratio |-> RatioDen, obj |-> AlwaysSampleStrategy],
     [ratio |-> RatioDen \div 2,
      obj |-> RatioBasedSamplingStrategy(RatioDen \div 2).obj]}

\* strategy = EndpointExclusionSamplingStrategy(base_sampler, patterns)
ConstructExclusionSampler ==
    \E base \in ExclusionBases : \E patterns \in ExclusionLists :
        /\ strategy' = [made |-> "EndpointExclusionSamplingStrategy",
                        obj |-> EndpointExclusionSamplingStrategy(base.obj,
                                                                  patterns),
                        ratio |-> base.ratio, exclude |-> patterns]
        /\ lastOp' = Op("EndpointExclusionSamplingStrategy", 0,
                        Return(State, 0), <<base.ratio, patterns>>)
        /\ UNCHANGED <<decorated, config, exps, procs, provs, pubs, globalProvider,
                       globalTracer, telemetryPublisher, spanCount, app,
                       tasks>>

\* strategy.should_sample(...) of an exclusion strategy, with the whole
\* SamplingResult observed; the trace ids are the lowest and the highest
\* the ratio layer tells apart
SampleResult ==
    \E ctx \in ParentContexts : \E trace_id \in {0, TRACE_ID_LIMIT} :
    \E name \in SamplerNames : \E attributes \in SpanAttributes :
    \E trace_state \in CallerTraceStates :
        /\ strategy.made = "EndpointExclusionSamplingStrategy"
        /\ lastOp' = Op("sampling_result", 0,
                        Return(State, sampling_result(strategy.obj, ctx,
                                   trace_id, name, attributes, trace_state)),
                        [ctx |-> ctx, trace_id |-> trace_id, name |-> name,
                         attributes |-> attributes,
                         trace_state |-> trace_state])
        /\ UNCHANGED <<decorated, config, exps, procs, provs, pubs, globalProvider,
                       globalTracer, telemetryPublisher, spanCount, strategy,
                       app, tasks>>

\* strategy.should_sample(parent_context, trace_id, name, ...)
ShouldSample ==
    \E parent \in Parents : \E trace_id \in TraceIds : \E name \in SamplerNames :
        /\ strategy.made # "none"
        /\ lastOp' = Op("should_sample", 0,
                        Return(State, strategy_should_sample(
                                          strategy.obj, parent, trace_id, name)),
                        [parent |-> parent, trace_id |-> trace_id,
                         name |-> name])
        /\ UNCHANGED <<decorated, config, exps, procs, provs, pubs, globalProvider,
                       globalTracer, telemetryPublisher, spanCount, strategy,
                       app, tasks>>

Next ==
    \/ CreateExporter
    \/ Connect
    \/ Disconnect
    \/ Construct
    \/ Attach
    \/ Detach
    \/ Initialize
    \/ Shutdown
    \/ GetTracer
    \/ ExporterHealthCheck
    \/ GetSpanProcessor
    \/ HealthCheck
    \/ GetExporterInfo
    \/ InitializeTelemetry
    \/ CleanupTelemetry
    \/ GetTelemetryPublisher
    \/ TelemetryHealthCheck
    \/ LifespanStartup
    \/ LifespanShutdown
    \/ EmitSpan
    \/ Spawn
    \/ RunTask
    \/ Instrument
    \/ ScopedSpan
    \/ WorkerExport
    \/ CreateSamplingStrategy
    \/ ConstructRatioSampler
    \/ ConstructExclusionSampler
    \/ SampleResult
    \/ ShouldSample

Spec == Init /\ [][Next]_vars

\* The publisher's and the exporters' own operations, called directly
NextPub ==
    \/ Connect
    \/ Disconnect
    \/ Attach
    \/ Detach
    \/ Initialize
    \/ Shutdown
    \/ GetTracer
    \/ EmitSpan
    \/ WorkerExport

SpecPub == InitPub /\ [][NextPub]_vars

\* The exporters' own operations, on exporters that may be attached to an
\* initialized publisher and hold spans
NextExp ==
    \/ Connect
    \/ Disconnect
    \/ ExporterHealthCheck
    \/ GetSpanProcessor
    \/ Attach
    \/ Initialize
    \/ EmitSpan
    \/ WorkerExport

SpecExp == InitPub /\ [][NextExp]_vars

\* The exporters' own operations only
NextInfo ==
    \/ Connect
    \/ Disconnect
    \/ ExporterHealthCheck
    \/ GetSpanProcessor
    \/ GetExporterInfo

SpecInfo == InitPub /\ [][NextInfo]_vars

\* The publisher's health report over its lifecycle
NextHealth ==
    \/ Connect
    \/ Disconnect
    \/ Attach
    \/ Detach
    \/ Initialize
    \/ Shutdown
    \/ HealthCheck

SpecHealth == InitPub /\ [][NextHealth]_vars

\* The module-level entry points
NextTel ==
    \/ InitializeTelemetry
    \/ CleanupTelemetry
    \/ EmitSpan
    \/ WorkerExport

SpecTel == Init /\ [][NextTel]_vars

\* The module-level entry points and the accessors of the global publisher
NextGlobal ==
    \/ InitializeTelemetry
    \/ CleanupTelemetry
    \/ GetTelemetryPublisher
    \/ TelemetryHealthCheck

SpecGlobal == Init /\ [][NextGlobal]_vars

\* Coroutines calling one publisher, scheduled in any order
NextCo ==
    \/ Connect
    \/ Spawn
    \/ RunTask

SpecCo == InitPub /\ [][NextCo]_vars

\* Scopes entered before, between and after the module-level entry points
NextScope ==
    \/ InitializeTelemetry
    \/ CleanupTelemetry
    \/ Instrument
    \/ ScopedSpan
    \/ WorkerExport

SpecScope == Init /\ [][NextScope]_vars

\* The application's lifespan, with spans emitted while it lives
NextLife ==
    \/ LifespanStartup
    \/ LifespanShutdown
    \/ EmitSpan
    \/ WorkerExport

\* Before startup no configuration is loaded
InitLife ==
    /\ config = <<>>
    /\ exps = <<>>
    /\ procs = <<>>
    /\ provs = <<>>
    /\ pubs = <<>>
    /\ globalProvider = 0
    /\ globalTracer = 0
    /\ telemetryPublisher = 0
    /\ spanCount = 0
    /\ strategy = NoSampler
    /\ app = "created"
    /\ tasks = <<>>
    /\ decorated = <<>>
    /\ lastOp = Op("none", 0, Return(State, 0), <<>>)

SpecLife == InitLife /\ [][NextLife]_vars

\* The sampling strategies on their own: constructed, then asked
NextSampler ==
    \/ CreateSamplingStrategy
    \/ ConstructRatioSampler
    \/ ShouldSample

\* One configuration is enough: the strategies never read it
InitSampler == Init /\ config = <<CfgConsole>>

SpecSampler == InitSampler /\ [][NextSampler]_vars

\* The exclusion strategy on its own, with its whole result
NextExclusion ==
    \/ ConstructExclusionSampler
    \/ SampleResult

SpecExclusion == InitSampler /\ [][NextExclusion]_vars

\* =============================================================== claims
Attached(p) == pubs[p].exporters

\* A span name the configured exclusion list matches
Excluded(name) ==
    \E i \in 1..Len(config) : \E k \in 1..Len(config[i].exclude) :
        Contains(name, config[i].exclude[k])

\* The span ended last went through the provider of publisher p
SpanOf(p) ==
    /\ lastOp.op = "span"
    /\ pubs[p].initialized
    /\ lastOp.ret = pubs[p].provider

\* How often the span ended last was handed to processor pr (on_end calls)
Handed(pr) ==
    IF lastOp.arg.recorded THEN Registrations(provs[lastOp.ret].procs, pr) ELSE 0

\* C1: while a publisher is initialized, every recorded span ended through
\* its provider is handed exactly once to the processor of every attached
\* exporter.  (Stated as claimed; the code breaks it.)
C1_ExactlyOnceFanOut ==
    \A p \in PubIds :
        (SpanOf(p) /\ lastOp.arg.recorded) =>
            \A i \in 1..Len(Attached(p)) :
                LET pr == exps[Attached(p)[i]].proc
                IN  pr # 0 => Handed(pr) = 1

\* C2: after initialize() the configured sampler decides: a root span whose
\* name matches the exclusion list reaches no processor, any other root
\* span (ratio 1.0) reaches every registered processor.  (Stated as
\* claimed; the code breaks it.)
C2_ConfiguredSamplerDecides ==
    \A p \in PubIds :
        (SpanOf(p) /\ lastOp.arg.parent = "none") =>
            \A pr \in Range(provs[lastOp.ret].procs) :
                IF Excluded(lastOp.arg.name) THEN Handed(pr) = 0
                ELSE Handed(pr) >= 1

\* The providers of the entries whose exporter initialize_telemetry must
\* end up with: enabled, constructible, connect succeeded
RECURSIVE Survivors(_, _, _)
Survivors(cfg, f, i) ==
    IF i > Len(cfg) THEN <<>>
    ELSE (IF cfg[i].enabled /\ cfg[i].provider \in TELEMETRY_EXPORTERS
             /\ cfg[i].sub /\ f[i] = "none"
          THEN <<cfg[i].provider>> ELSE <<>>) \o Survivors(cfg, f, i + 1)

AnyEnabled == \E i \in 1..Len(config) : config[i].enabled

ShutDown(p) ==
    /\ ~pubs[p].initialized
    /\ pubs[p].provider # 0
    /\ provs[pubs[p].provider].shutdown

\* C4: once shut down, a publisher is never initialized again and gets no
\* new trace provider.  (Stated as claimed; the code breaks it.)
C4_OneShotLifecycle ==
    [][\A p \in PubIds :
          ShutDown(p) =>
              /\ ~pubs'[p].initialized
              /\ pubs'[p].provider = pubs[p].provider]_vars

\* C5: initialize() on an initialized publisher does not raise and changes
\* neither the publisher (flag, provider, attached list) nor any provider's
\* registered processors nor the global provider.
C5_InitializeIdempotent ==
    [][\A p \in PubIds :
          (lastOp'.op = "initialize" /\ lastOp'.pub = p /\ pubs[p].initialized) =>
              /\ ~lastOp'.raised
              /\ pubs' = pubs
              /\ provs' = provs
              /\ procs' = procs
              /\ exps' = exps
              /\ globalProvider' = globalProvider]_vars

\* C5 witness: a second initialize() on a publisher with a registered processor
C5_Witness ==
    /\ lastOp.op = "initialize"
    /\ lastOp.noop
    /\ pubs[lastOp.pub].initialized
    /\ provs[pubs[lastOp.pub].provider].procs # <<>>

NoDuplicates(list) ==
    \A i, j \in 1..Len(list) : list[i] = list[j] => i = j

\* x comes before y in list
Before(list, x, y) ==
    \E i, j \in 1..Len(list) : i < j /\ list[i] = x /\ list[j] = y

\* C6: the attached list never holds an exporter twice; attach and detach
\* keep the relative order of the exporters that stay, attach puts a new
\* exporter last, and attach of an attached exporter or detach of one that
\* is not attached leaves the list as it is.
C6_AttachedListOrdered ==
    [][\A p \in PubIds :
          LET old == pubs[p].exporters
              new == pubs'[p].exporters
          IN  /\ NoDuplicates(new)
              /\ (lastOp'.op \in {"attach", "detach"} /\ lastOp'.pub = p) =>
                    LET e == lastOp'.arg[1]
                    IN  /\ \A x, y \in Range(old) \cap Range(new) :
                              Before(old, x, y) <=> Before(new, x, y)
                        /\ lastOp'.op = "attach" =>
                              /\ Range(new) = Range(old) \cup {e}
                              /\ e \notin Range(old) => new[Len(new)] = e
                              /\ e \in Range(old) => new = old
                        /\ lastOp'.op = "detach" =>
                              /\ Range(new) = Range(old) \ {e}
                              /\ e \notin Range(old) => new = old]_vars

\* C6 witness: of two attached exporters the first was detached and
\* attached again, so it is now last
C6_Witness ==
    /\ lastOp.op = "attach"
    /\ ~lastOp.noop
    /\ \E p \in PubIds :
          /\ Len(pubs[p].exporters) = 2
          /\ pubs[p].exporters[1] > pubs[p].exporters[2]

\* C7: attach() changes nothing but the attached list: no exporter, no
\* processor, no provider, not the initialized flag, not the global provider.
C7_AttachFrame ==
    [][lastOp'.op = "attach" =>
          /\ exps' = exps
          /\ procs' = procs
          /\ provs' = provs
          /\ globalProvider' = globalProvider
          /\ \A p \in PubIds :
                /\ pubs'[p].initialized = pubs[p].initialized
                /\ pubs'[p].provider = pubs[p].provider]_vars

\* C7 witness: a connected exporter was attached to an initialized publisher
C7_Witness ==
    /\ lastOp.op = "attach"
    /\ ~lastOp.noop
    /\ pubs[lastOp.pub].initialized
    /\ exps[lastOp.arg[1]].connected

\* C8: shutdown() on a publisher that is not initialized does not raise
\* and changes nothing.
C8_ShutdownUninitializedNoop ==
    [][\A p \in PubIds :
          (lastOp'.op = "shutdown" /\ lastOp'.pub = p /\ ~pubs[p].initialized) =>
              /\ ~lastOp'.raised
              /\ pubs' = pubs
              /\ provs' = provs
              /\ procs' = procs
              /\ exps' = exps
              /\ globalProvider' = globalProvider]_vars

\* C8 witness: shutdown() came on a never initialized publisher with a
\* connected exporter attached
C8_Witness ==
    /\ lastOp.op = "shutdown"
    /\ lastOp.noop
    /\ pubs[lastOp.pub].provider = 0
    /\ \E e \in Range(pubs[lastOp.pub].exporters) : exps[e].connected

\* C9: get_tracer() raises exactly when the publisher is not initialized,
\* and otherwise returns a tracer of the publisher's own provider.
C9_GetTracer ==
    lastOp.op = "get_tracer" =>
        LET p == lastOp.pub
        IN  /\ lastOp.raised <=> ~pubs[p].initialized
            /\ ~lastOp.raised =>
                  /\ lastOp.ret # 0
                  /\ lastOp.ret = pubs[p].provider

\* C9 witness: get_tracer() raised on a publisher that was shut down
C9_Witness ==
    /\ lastOp.op = "get_tracer"
    /\ lastOp.raised
    /\ ShutDown(lastOp.pub)

After ==
    [State EXCEPT !.exps = exps', !.procs = procs', !.provs = provs',
                  !.pubs = pubs']

\* No object and no global is changed by the step
NothingChanged ==
    /\ exps' = exps
    /\ procs' = procs
    /\ provs' = provs
    /\ pubs' = pubs
    /\ globalProvider' = globalProvider
    /\ globalTracer' = globalTracer
    /\ telemetryPublisher' = telemetryPublisher

\* C11: after connect() raised, the exporter's health_check() is false and
\* its get_span_processor() raises, whatever the exporter variant and the
\* point of failure.
C11_FailedConnectDisconnected ==
    (lastOp.op = "connect" /\ lastOp.raised) =>
        LET e == lastOp.arg[1]
        IN  /\ ~exporter_health_check(State, e)
            /\ get_span_processor(State, e).raised

\* C12: connect() on a connected exporter either keeps the processor held
\* or leaves the processor it replaces flushed and closed.
C12_ReconnectDoesNotLeak ==
    [][\A e \in ExpIds :
          (lastOp'.op = "connect" /\ lastOp'.arg[1] = e /\ exps[e].connected) =>
              LET old == exps[e].proc
              IN  \/ exps'[e].proc = old
                  \/ /\ procs'[old].closed
                     /\ procs'[old].buffered = 0
                     /\ procs'[old].exported =
                           procs[old].exported + procs[old].buffered]_vars

\* C13: disconnect() never raises; on a connected exporter it exports what
\* the processor has buffered, closes it and drops the handles; on an
\* exporter that is not connected nothing is exported; either way the
\* exporter ends with health_check() false and get_span_processor() raising.
C13_DisconnectFlushesAndIsIdempotent ==
    [][\A e \in ExpIds :
          (lastOp'.op = "disconnect" /\ lastOp'.arg[1] = e) =>
              /\ ~lastOp'.raised
              /\ ~exporter_health_check(After, e)
              /\ get_span_processor(After, e).raised
              /\ IF exporter_health_check(State, e)
                 THEN LET pr == exps[e].proc
                      IN  /\ procs'[pr].closed
                          /\ procs'[pr].buffered = 0
                          /\ procs'[pr].exported =
                                procs[pr].exported + procs[pr].buffered
                          /\ ~exps'[e].handle
                 ELSE \A pr \in ProcIds :
                          procs'[pr].exported = procs[pr].exported]_vars

\* C14: exporter.health_check() returns true exactly when the exporter is
\* connected and holds a processor, and changes nothing.
C14_ExporterHealthCheck ==
    [][\A e \in ExpIds :
          (lastOp'.op = "exporter_health_check" /\ lastOp'.arg[1] = e) =>
              /\ ~lastOp'.raised
              /\ lastOp'.ret = (exps[e].connected /\ exps[e].proc # 0)
              /\ lastOp'.ret => ~get_span_processor(State, e).raised
              /\ NothingChanged]_vars

\* C14 witness: health_check() came both ways: true of one exporter of the
\* heap, and now false of an exporter that still holds a processor
C14_Witness ==
    /\ lastOp.op = "exporter_health_check"
    /\ lastOp.ret = FALSE
    /\ exps[lastOp.arg[1]].proc # 0
    /\ \E e \in ExpIds : exps[e].connected

\* The attached exporters of p whose health_check() raises in this call
Failing(p, fails) == {e \in Range(pubs[p].exporters) : fails[e]}

\* C15: when every attached exporter answers, publisher.health_check()
\* reports the initialized flag and one entry per attached exporter, in
\* attach order, each with that exporter's own health_check(); it changes
\* nothing.
C15_HealthReport ==
    [][\A p \in PubIds :
          (lastOp'.op = "health_check" /\ lastOp'.pub = p
              /\ Failing(p, lastOp'.arg) = {}) =>
              /\ ~lastOp'.raised
              /\ lastOp'.ret.initialized = pubs[p].initialized
              /\ Len(lastOp'.ret.exporters) = Len(pubs[p].exporters)
              /\ \A i \in 1..Len(pubs[p].exporters) :
                    /\ lastOp'.ret.exporters[i].exp = pubs[p].exporters[i]
                    /\ lastOp'.ret.exporters[i].healthy =
                          exporter_health_check(State, pubs[p].exporters[i])
              /\ NothingChanged]_vars

\* C15 witness: a report of a publisher that was shut down, with two
\* exporters attached, the first not healthy and the second healthy
C15_Witness ==
    /\ lastOp.op = "health_check"
    /\ ~lastOp.raised
    /\ ShutDown(lastOp.pub)
    /\ Len(lastOp.ret.exporters) = 2
    /\ ~lastOp.ret.exporters[1].healthy
    /\ lastOp.ret.exporters[2].healthy

\* C16: when the health_check() of an attached exporter raises,
\* publisher.health_check() still returns a report with an entry for every
\* other attached exporter.
C16_HealthFailureIsolation ==
    \A p \in PubIds :
        (lastOp.op = "health_check" /\ lastOp.pub = p
            /\ Failing(p, lastOp.arg) # {}) =>
            /\ ~lastOp.raised
            /\ \A e \in Range(pubs[p].exporters) \ Failing(p, lastOp.arg) :
                  \E i \in 1..Len(lastOp.ret.exporters) :
                      /\ lastOp.ret.exporters[i].exp = e
                      /\ lastOp.ret.exporters[i].healthy =
                            exporter_health_check(State, e)

\* The call made last asked the strategy that create_sampling_strategy
\* returned
AskedComposed ==
    /\ lastOp.op = "should_sample"
    /\ strategy.made = "create_sampling_strategy"

\* The span name contains one of the patterns of the list
Matches(name, exclude) ==
    \E k \in 1..Len(exclude) : Contains(name, exclude[k])

\* The decision of the ratio layer for ratio n / RatioDen: the compared
\* part of the trace id lies below the ratio's bound
RatioLayer(n, trace_id) ==
    \/ n >= RatioDen
    \/ trace_id % (2 ^ TraceIdBits) < get_bound_for_rate(n)

\* C17: the composed sampler gives a span with a valid parent the parent's
\* decision, whatever the ratio, the exclusion list, the span's name and
\* its trace id.
C17_ParentDecides ==
    (AskedComposed /\ lastOp.arg.parent # "none") =>
        (lastOp.ret <=> lastOp.arg.parent = "sampled")

\* C17 witness: a child of a sampled parent was recorded although its name
\* is excluded and the ratio is 0.0
C17_Witness ==
    /\ AskedComposed
    /\ lastOp.arg.parent = "sampled"
    /\ strategy.ratio = 0
    /\ Matches(lastOp.arg.name, strategy.exclude)
    /\ strategy.exclude # <<>>
    /\ lastOp.ret = TRUE

\* C18: with a non-empty exclusion list the composed sampler drops every
\* root span whose name contains one of the patterns, and gives any other
\* root span the ratio layer's decision.
C18_ExclusionBeforeRatio ==
    (AskedComposed /\ strategy.exclude # <<>> /\ lastOp.arg.parent = "none") =>
        IF Matches(lastOp.arg.name, strategy.exclude)
        THEN lastOp.ret = FALSE
        ELSE lastOp.ret = RatioLayer(strategy.ratio, lastOp.arg.trace_id)

\* C18 witness: a root span was dropped at ratio 1.0 for the second pattern
\* of the list, its name not containing the first
C18_Witness ==
    /\ AskedComposed
    /\ lastOp.arg.parent = "none"
    /\ strategy.ratio = RatioDen
    /\ Len(strategy.exclude) = 2
    /\ ~Contains(lastOp.arg.name, strategy.exclude[1])
    /\ Contains(lastOp.arg.name, strategy.exclude[2])
    /\ lastOp.ret = FALSE

\* The call made last asked a RatioBasedSamplingStrategy about a root span
AskedRatio(op) ==
    /\ op.op = "should_sample"
    /\ strategy.made = "RatioBasedSamplingStrategy"
    /\ op.arg.parent = "none"

C20_BoundaryRatios ==
    (AskedComposed /\ lastOp.arg.parent = "none") =>
        /\ (strategy.ratio = RatioDen /\ strategy.exclude = <<>>) =>
              lastOp.ret = TRUE
        /\ strategy.ratio = 0 => lastOp.ret = FALSE

\* C20 witness: at ratio 0.0 and with no exclusions the root span of the
\* lowest trace id was dropped
C20_Witness ==
    /\ AskedComposed
    /\ lastOp.arg.parent = "none"
    /\ strategy.ratio = 0
    /\ strategy.exclude = <<>>
    /\ lastOp.arg.trace_id = 0
    /\ lastOp.ret = FALSE

\* C21: a construction of a ratio sampler, by RatioBasedSamplingStrategy or
\* by create_sampling_strategy, with a ratio below 0.0 or above 1.0 raises
\* (and so yields no strategy).
C21_InvalidRatioRejected ==
    (/\ lastOp.op \in {"create_sampling_strategy", "RatioBasedSamplingStrategy"}
     /\ (lastOp.arg[1] < 0 \/ lastOp.arg[1] > RatioDen)) =>
        lastOp.raised

\* C23: initialize_telemetry on a configuration with no enabled exporter
\* raises, constructs and connects no exporter, and leaves the global
\* publisher reference, the global tracer and the global trace provider as
\* they were.
C23_NoEnabledExporterFails ==
    [][(lastOp'.op = "initialize_telemetry"
          /\ get_enabled_exporters(config) = <<>>) =>
              /\ lastOp'.raised
              /\ exps' = exps
              /\ procs' = procs
              /\ telemetryPublisher' = telemetryPublisher
              /\ globalTracer' = globalTracer
              /\ globalProvider' = globalProvider]_vars

\* C23 witness: the call raised on a configuration of two disabled entries
C23_Witness ==
    /\ lastOp.op = "initialize_telemetry"
    /\ lastOp.raised
    /\ Len(config) = 2
    /\ get_enabled_exporters(config) = <<>>
    /\ exps = <<>>

\* C24: after a successful cleanup_telemetry() every exporter that was
\* attached to the global publisher is disconnected (health_check() false,
\* no processor held), the publisher is not initialized and the global
\* reference is cleared.
C24_CleanupDisconnects ==
    [][(lastOp'.op = "cleanup_telemetry" /\ telemetryPublisher # 0
          /\ ~lastOp'.raised) =>
              /\ \A e \in Range(pubs[telemetryPublisher].exporters) :
                    /\ ~exporter_health_check(After, e)
                    /\ exps'[e].proc = 0
              /\ ~pubs'[telemetryPublisher].initialized
              /\ telemetryPublisher' = 0]_vars

\* C25: every initialized publisher is the one the global reference
\* names, so at most one publisher is initialized at any time.
C25_SingleInitializedPublisher ==
    \A p \in PubIds : pubs[p].initialized => p = telemetryPublisher

\* C28: the global publisher reference changes only in a completed
\* initialize_telemetry, which sets it, and in a successful
\* cleanup_telemetry, which clears it; while it is unset,
\* get_telemetry_publisher() raises, telemetry_health_check() returns
\* {initialized: false, exporters: []} and cleanup_telemetry() returns
\* without raising, each leaving everything as it was.
C28_GlobalReference ==
    [][/\ telemetryPublisher' # telemetryPublisher =>
             /\ ~lastOp'.raised
             /\ lastOp'.op \in {"initialize_telemetry", "cleanup_telemetry"}
       /\ (lastOp'.op = "initialize_telemetry" /\ ~lastOp'.raised) =>
             /\ telemetryPublisher' = lastOp'.ret
             /\ telemetryPublisher' # 0
       /\ (lastOp'.op = "cleanup_telemetry" /\ ~lastOp'.raised) =>
             telemetryPublisher' = 0
       /\ telemetryPublisher = 0 =>
             /\ lastOp'.op = "get_telemetry_publisher" =>
                   lastOp'.raised /\ NothingChanged
             /\ lastOp'.op = "telemetry_health_check" =>
                   /\ ~lastOp'.raised
                   /\ lastOp'.ret = [initialized |-> FALSE, exporters |-> <<>>]
                   /\ NothingChanged
             /\ lastOp'.op = "cleanup_telemetry" =>
                   ~lastOp'.raised /\ NothingChanged]_vars

\* C28 witness: after a cleanup of a publisher with an attached exporter,
\* telemetry_health_check() returned the report of no publisher
C28_Witness ==
    /\ lastOp.op = "telemetry_health_check"
    /\ telemetryPublisher = 0
    /\ lastOp.ret.exporters = <<>>
    /\ \E p \in PubIds : pubs[p].provider # 0 /\ pubs[p].exporters # <<>>
                            /\ ~pubs[p].initialized

\* C22: no loaded configuration holds an exporter entry whose provider has
\* no sub-configuration: a startup given such an entry fails, with no
\* exporter created.
C22_MissingSubConfigRejected ==
    /\ \A i \in 1..Len(config) : config[i].sub
    /\ (lastOp.op = "lifespan_startup"
          /\ \E i \in 1..Len(lastOp.arg.raw.exporters) :
                ~lastOp.arg.raw.exporters[i].sub) =>
              /\ lastOp.raised
              /\ app = "failed"
              /\ exps = <<>>

\* The startup made last was given a configuration that loads and has an
\* enabled exporter
StartedLoadable(op) ==
    /\ op.op = "lifespan_startup"
    /\ ~load_config(op.arg.raw).raised
    /\ get_enabled_exporters(op.arg.raw.exporters) # <<>>

C27_DropKeepsTraceState ==
    (lastOp.op = "sampling_result"
        /\ Matches(lastOp.arg.name, strategy.exclude)) =>
        /\ lastOp.ret.decision = "DROP"
        /\ lastOp.ret.attributes = lastOp.arg.attributes
        /\ lastOp.ret.trace_state =
              IF lastOp.arg.ctx.present
                    /\ lastOp.arg.ctx.trace_state \notin {"None", "empty"}
              THEN lastOp.arg.ctx.trace_state
              ELSE lastOp.arg.trace_state

\* C27 witness: a span was dropped for its name and the result has the
\* parent's trace state, not the one the caller passed, and the attributes
C27_Witness ==
    /\ lastOp.op = "sampling_result"
    /\ Matches(lastOp.arg.name, strategy.exclude)
    /\ lastOp.arg.ctx.trace_state = "vendor=1"
    /\ lastOp.arg.trace_state = "caller=1"
    /\ lastOp.arg.attributes # <<>>
    /\ lastOp.ret.trace_state = "vendor=1"
    /\ lastOp.ret.attributes = lastOp.arg.attributes

\* The call made last was a scope: create_span or a wrapper of instrument
Scoped == lastOp.op \in Wrappers

\* C26: the span of a scope is ended exactly once, however the body ends;
\* when the body raises, operation.success = false, error.type and
\* error.message are set on the span and the same exception propagates;
\* when it returns, operation.success = true is set and a wrapper returns
\* the body's result.
C26_ScopedSpansClosed ==
    Scoped =>
        /\ lastOp.arg.span.ends = 1
        /\ IF lastOp.arg.outcome.raises
           THEN /\ lastOp.raised
                /\ lastOp.arg.propagated = lastOp.arg.outcome.exc
                /\ lastOp.arg.span.success = "false"
                /\ lastOp.arg.span.error_type = lastOp.arg.outcome.exc
                /\ lastOp.arg.span.error_message =
                      Message(lastOp.arg.outcome.exc)
           ELSE /\ ~lastOp.raised
                /\ lastOp.arg.span.success = "true"
                /\ lastOp.op # "create_span" =>
                      lastOp.ret = lastOp.arg.outcome.result

\* C26 amended: as C26, with the failure set on the span when the exception
\* raised is derived from Exception; any other exception propagates the
\* same and the span is ended once, with none of the three attributes set.
C26_ScopedSpansClosedForExceptions ==
    Scoped =>
        /\ lastOp.arg.span.ends = 1
        /\ IF lastOp.arg.outcome.raises
           THEN /\ lastOp.raised
                /\ lastOp.arg.propagated = lastOp.arg.outcome.exc
                /\ IF lastOp.arg.outcome.is_exception
                   THEN /\ lastOp.arg.span.success = "false"
                        /\ lastOp.arg.span.error_type = lastOp.arg.outcome.exc
                        /\ lastOp.arg.span.error_message =
                              Message(lastOp.arg.outcome.exc)
                   ELSE /\ lastOp.arg.span.success = "unset"
                        /\ lastOp.arg.span.error_type = "unset"
           ELSE /\ ~lastOp.raised
                /\ lastOp.arg.span.success = "true"
                /\ lastOp.op # "create_span" =>
                      lastOp.ret = lastOp.arg.outcome.result

\* C26 witness: the body of an async wrapper raised, the span was recorded
\* and ended, and it reached the processor of the attached exporter
C26_Witness ==
    /\ lastOp.op = "async_wrapper"
    /\ lastOp.raised
    /\ lastOp.arg.outcome.is_exception
    /\ lastOp.arg.span.ends = 1
    /\ lastOp.arg.recorded
    /\ \E pr \in ProcIds : procs[pr].buffered = 1

\* The coroutines of publisher p that ran the call op to its end
Ran(p, op) ==
    {i \in 1..Len(tasks) : tasks[i].done /\ tasks[i].pub = p /\ tasks[i].op = op}

Registered(p) ==
    IF pubs[p].provider = 0 THEN {} ELSE Range(provs[pubs[p].provider].procs)

\* The processors the attached exporters of publisher p hold now
HeldBy(p) == {exps[e].proc : e \in Range(pubs[p].exporters)} \ {0}

\* C31: while a publisher is initialized, the set of processors registered
\* with its trace provider equals the set of processors its attached
\* exporters hold, also after attach(), detach(), connect() or disconnect()
\* calls made after initialize().  (Stated as claimed; the code breaks it.)
C31_RegisteredMatchesAttached ==
    \A p \in PubIds : pubs[p].initialized => Registered(p) = HeldBy(p)

\* Exporter e holds a processor that has not been shut down
HoldsLiveProcessor(e) ==
    /\ exps[e].proc # 0
    /\ ~procs[exps[e].proc].closed

\* C32: no exporter reports healthy while its processor is closed: an
\* exporter whose health_check() returns true holds a processor that was not
\* shut down, by disconnect() or through publisher.shutdown(), and the
\* publisher's health report marks no other exporter healthy.  (Stated as
\* claimed; the code breaks it.)
C32_ClosedProcessorUnhealthy ==
    /\ \A e \in ExpIds : exporter_health_check(State, e) => HoldsLiveProcessor(e)
    /\ (lastOp.op = "health_check" /\ ~lastOp.raised) =>
          \A i \in 1..Len(lastOp.ret.exporters) :
              lastOp.ret.exporters[i].healthy =>
                  HoldsLiveProcessor(lastOp.ret.exporters[i].exp)

\* C33: an initialize() that raises because an attached exporter holds no
\* processor leaves the publisher as it was: not initialized, holding no
\* new trace provider, no processor registered with any provider, nothing
\* published; an initialize() that succeeds registers the processor of
\* every attached exporter exactly once.  (Stated as claimed; the code
\* breaks it.)
C33_FailedInitializeChangesNothing ==
    [][/\ (lastOp'.op = "initialize" /\ lastOp'.raised) =>
              /\ pubs' = pubs
              /\ provs' = provs
              /\ globalProvider' = globalProvider
       /\ (lastOp'.op = "initialize" /\ ~lastOp'.raised /\ ~lastOp'.noop) =>
              \A e \in Range(pubs'[lastOp'.pub].exporters) :
                  Registrations(provs'[pubs'[lastOp'.pub].provider].procs,
                                exps'[e].proc) = 1]_vars

\* C35: after any sequence of connect() calls, succeeding or failing, and
\* disconnect() calls, an exporter whose connected flag is set holds a
\* processor and a backend exporter; get_exporter_info() never raises and
\* its connected field equals what health_check() returns.
C35_ConnectedHoldsHandles ==
    /\ \A e \in ExpIds :
          /\ exps[e].connected => (exps[e].proc # 0 /\ exps[e].handle)
          /\ get_exporter_info(State, e).ret.connected =
                exporter_health_check(State, e)
    /\ lastOp.op = "get_exporter_info" =>
          /\ ~lastOp.raised
          /\ lastOp.ret.connected = exporter_health_check(State, lastOp.arg[1])

\* C35 witness: a connected exporter on which a further connect() has just
\* failed after the backend exporter was built
C35_Witness ==
    /\ lastOp.op = "connect"
    /\ lastOp.raised
    /\ exps[lastOp.arg[1]].connected
    /\ exps[lastOp.arg[1]].handle

\* The call made in this step applied instrument
Applied == lastOp'.op = "instrument"

\* C34: instrument binds its tracer when the decorator is applied: without
\* existing_tracer and with no global tracer set it raises then and wraps
\* nothing, otherwise the wrapper holds existing_tracer or the global tracer
\* of that moment; no later call, set_global_tracer in initialize_telemetry
\* included, changes the tracer of a wrapper made before, and a call of the
\* wrapper starts its span with that tracer.
C34_TracerBoundAtDecoration ==
    [][/\ (Applied /\ lastOp'.arg.existing_tracer = 0 /\ globalTracer = 0) =>
              /\ lastOp'.raised
              /\ decorated' = decorated
       /\ (Applied /\ ~lastOp'.raised) =>
              decorated' = Append(decorated,
                  [tracer |-> IF lastOp'.arg.existing_tracer # 0
                              THEN lastOp'.arg.existing_tracer
                              ELSE globalTracer,
                   wrapper |-> lastOp'.arg.wrapper])
       /\ ~Applied => decorated' = decorated
       /\ lastOp'.op \in Wrappers \ {"create_span"} =>
              /\ lastOp'.arg.tracer = decorated[lastOp'.arg.func].tracer
              /\ lastOp'.arg.recorded =>
                    procs' = span_end(procs,
                                      provs[decorated[lastOp'.arg.func].tracer].procs,
                                      1)]_vars

\* C34 witness: a wrapper made while the first publisher's tracer was the
\* global one is called after a second initialize_telemetry() replaced the
\* global tracer, and its span is recorded by the first provider
C34_Witness ==
    /\ lastOp.op \in Wrappers \ {"create_span"}
    /\ globalTracer # 0
    /\ lastOp.arg.tracer # globalTracer
    /\ lastOp.arg.recorded

====
